---- MODULE Spec2Model ----
(***************************************************************************)
(* A model of pivot_table.py: the per-file loop of main, the size router   *)
(* pivot_file, the whole-file and the chunked aggregation, and the pure    *)
(* functions filter_dataframe, pivot_table and the chunk merge.            *)
(*                                                                         *)
(* A string is a sequence of tokens (<<"Yes", " ", "please">> is           *)
(* "Yes please"), a regular expression of the configuration is the set of  *)
(* its alternatives, each a sequence of tokens.  A data frame is a record  *)
(* [columns, rows]; a row is a function from the frame's columns to cells. *)
(* A count table is a function from (main, secondary) pairs to counts.     *)
(***************************************************************************)
EXTENDS Naturals, Sequences, FiniteSets, TLC

VARIABLES
    config,            \* the Config class chosen at start-up
    file_no,           \* index into input_files of the file being processed
    pc,                \* position of the script
    file_size,         \* os.path.getsize(input_file_path) of the current file
    csv,               \* content of the current file: header and data rows
    reader_pos,        \* rows already handed out by the chunked reader
    overall_pivot_df,  \* running table of pivot_chunked_file
    pivot_df,          \* what pivot_file returned
    outcome,           \* per processed file: "written", "logged" or the uncaught exception
    na_filter,         \* how the frame under filter_dataframe was read
    dataframe,         \* the frame passing through filter_dataframe / pivot_table
    chunk_tables,      \* per-chunk tables of a file, for the merge algebra
    pending            \* chunk tables not merged yet

vars == <<config, file_no, pc, file_size, csv, reader_pos, overall_pivot_df,
          pivot_df, outcome, na_filter, dataframe, chunk_tables, pending>>

-----------------------------------------------------------------------------
(* Bounds *)

\* data rows of an input file
MaxRows == 3
\* rows per chunk of the reader (chunksize, scaled down)
ChunkRows == 1
\* input files of a run
NumFiles == 2
\* rows of a batch handed to filter_dataframe on its own
MaxBatch == 2
\* largest count of a key in a table handed to the merge on its own
MaxCount == 2

-----------------------------------------------------------------------------
(* Values *)

Columns == {"Destination", "Anchor", "Follow"}

\* a missing cell, as read_csv with the default na_filter produces it
NaN == <<"<NaN>">>

\* strings read_csv (na_filter on) turns into NaN; the empty field among them
NA_VALUES == {<<>>, <<"NA">>, <<"NaN">>, <<"null">>, <<"N/A">>}

None == [tag |-> "None"]

DataFrameOf(counts) == [tag |-> "DataFrame", counts |-> counts]

EmptyCounts == [k \in {} |-> 0]

Raise(e) == [exc |-> e]

Return(v) == [exc |-> "none", value |-> v]

Min(a, b) == IF a < b THEN a ELSE b

-----------------------------------------------------------------------------
(* Configuration *)

UKConfig ==
    [ main_column |-> "Destination",
      main_column_exclude |->
          { <<"14-carat/">>, <<"8-carat/">>, <<"9-carat/">>, <<"18-carat/">>,
            <<"22-carat/">>, <<"500/">>, <<"585/">>, <<"600/">>, <<"950/">>,
            <<"925/">> },
      secondary_column |-> "Anchor",
      secondary_column_exclude |->
          { <<"Yes">>, <<"No">>, <<"Colour">>, <<"Purity">>, <<"Width">>,
            <<"Profile">>, <<"Price">>, <<"Stone", " ", "size">>, <<"Style">>,
            <<"Menu">>, <<"Account">>, <<"Page", " ", "Previous">>,
            <<"Page", " ", "Next">>, <<"Remove", " ", "This", " ", "Item">> },
      additional_filters |-> << [column |-> "Follow", pattern |-> {<<"FALSE">>}] >> ]

-----------------------------------------------------------------------------
(* pandas string predicates *)

\* Series.str.contains(pattern, na=False): some substring matches; NaN gives False
str_contains(v, pattern) ==
    /\ v # NaN
    /\ \E i \in 1..Len(v) : \E j \in i..Len(v) : SubSeq(v, i, j) \in pattern

\* variant: Series.str.match, which anchors the pattern at the start only
str_match(v, pattern) == \E k \in 0..Len(v) : SubSeq(v, 1, k) \in pattern

\* Series.str.fullmatch(pattern): the entire string matches
str_fullmatch(v, pattern) == v \in pattern

Whitespace == {" "}

RECURSIVE lstrip(_)
lstrip(v) ==
    IF v = <<>> THEN <<>>
    ELSE IF Head(v) \in Whitespace THEN lstrip(Tail(v)) ELSE v

RECURSIVE rstrip(_)
rstrip(v) ==
    IF v = <<>> THEN <<>>
    ELSE IF v[Len(v)] \in Whitespace THEN rstrip(SubSeq(v, 1, Len(v) - 1)) ELSE v

\* Series.str.strip()
str_strip(v) == rstrip(lstrip(v))

-----------------------------------------------------------------------------
(* Reading *)

\* pd.read_csv(path, dtype=str, na_filter=naf): every field a string, and with
\* the NA filter on, the NA strings (the empty field among them) become NaN
read_csv(content, naf) ==
    [ columns |-> content.columns,
      rows |-> [ i \in 1..Len(content.rows) |->
                   [ c \in content.columns |->
                       IF naf /\ content.rows[i][c] \in NA_VALUES
                       THEN NaN ELSE content.rows[i][c] ] ] ]

-----------------------------------------------------------------------------
(* filter_dataframe *)

\* dataframe.dropna(how='all', axis=1)
dropna_columns(df) ==
    LET keep == { c \in df.columns :
                    \E i \in 1..Len(df.rows) : df.rows[i][c] # NaN }
    IN  [ columns |-> keep,
          rows |-> [ i \in 1..Len(df.rows) |-> [ c \in keep |-> df.rows[i][c] ] ] ]

\* dataframe[~dataframe[column].str.contains(pattern, na=False)], when pattern is set
exclude_rows(df, column, pattern) ==
    IF pattern = {} THEN Return(df)
    ELSE IF column \notin df.columns THEN Raise("KeyError")
    ELSE Return([ columns |-> df.columns,
                  rows |-> SelectSeq(df.rows,
                               LAMBDA r : ~ str_contains(r[column], pattern)) ])

\* lines 57-63: drop the empty columns, then the two exclusions
apply_exclusions(df, cfg) ==
    LET d0 == dropna_columns(df)
        d1 == exclude_rows(d0, cfg.main_column, cfg.main_column_exclude)
    IN  IF d1.exc # "none" THEN d1
        ELSE exclude_rows(d1.value, cfg.secondary_column, cfg.secondary_column_exclude)

\* dataframe.fillna('').astype(str)
fillna_str(df) ==
    [ columns |-> df.columns,
      rows |-> [ i \in 1..Len(df.rows) |->
                   [ c \in df.columns |->
                       IF df.rows[i][c] = NaN THEN <<>> ELSE df.rows[i][c] ] ] ]

\* one turn of the loop over additional_filters: KeyError is logged and skipped
apply_one_filter(df, f) ==
    IF f.column \notin df.columns THEN df
    ELSE [ columns |-> df.columns,
           rows |-> SelectSeq(df.rows,
                        LAMBDA r : str_fullmatch(r[f.column], f.pattern)) ]

RECURSIVE apply_filters_break(_, _)
\* variant: the loop ends at the first filter whose column is missing
apply_filters_break(df, filters) ==
    IF filters = <<>> THEN df
    ELSE IF Head(filters).column \notin df.columns THEN df
    ELSE apply_filters_break(apply_one_filter(df, Head(filters)), Tail(filters))

RECURSIVE apply_filters(_, _)
apply_filters(df, filters) ==
    IF filters = <<>> THEN df
    ELSE apply_filters(apply_one_filter(df, Head(filters)), Tail(filters))

\* lines 65-72
apply_additional_filters(df, cfg) ==
    apply_filters(fillna_str(df), cfg.additional_filters)

filter_dataframe(df, cfg) ==
    LET e == apply_exclusions(df, cfg)
    IN  IF e.exc # "none" THEN e
        ELSE Return(apply_additional_filters(e.value, cfg))

-----------------------------------------------------------------------------
(* pivot_table *)

RECURSIVE count_nonzero(_, _, _)
\* the aggregate of the count column (1 in every row) over the group of key
count_nonzero(rows, cfg, key) ==
    IF rows = <<>> THEN 0
    ELSE (IF <<Head(rows)[cfg.main_column], Head(rows)[cfg.secondary_column]>> = key
          THEN 1 ELSE 0) + count_nonzero(Tail(rows), cfg, key)

\* variant: the emptiness test without strip()
nonempty_secondary_unstripped(rows, cfg) ==
    SelectSeq(rows, LAMBDA r : r[cfg.secondary_column] # <<>>)

\* rows whose secondary value is non-empty after strip()
nonempty_secondary(rows, cfg) ==
    SelectSeq(rows, LAMBDA r : str_strip(r[cfg.secondary_column]) # <<>>)

pivot_table(df, cfg) ==
    IF cfg.secondary_column \notin df.columns \/ cfg.main_column \notin df.columns
    THEN Raise("KeyError")
    ELSE LET new_df == nonempty_secondary(df.rows, cfg)
             index == { <<new_df[i][cfg.main_column], new_df[i][cfg.secondary_column]>> :
                          i \in 1..Len(new_df) }
         IN  Return(DataFrameOf([ k \in index |-> count_nonzero(new_df, cfg, k) ]))

-----------------------------------------------------------------------------
(* The chunk merge *)

\* variant: how='left', the keys of the chunk that the running table lacks are lost
merge_left_join(a, b) ==
    [ k \in DOMAIN a |-> a[k] + (IF k \in DOMAIN b THEN b[k] ELSE 0) ]

\* variant: the outer join followed by the first non-missing count instead of the sum
merge_keep_first(a, b) ==
    [ k \in (DOMAIN a) \cup (DOMAIN b) |-> IF k \in DOMAIN a THEN a[k] ELSE b[k] ]

\* pd.merge(a, b, left_index, right_index, how='outer').sum(axis=1): the outer
\* join leaves NaN where a key is absent and sum skips it
merge(a, b) ==
    [ k \in (DOMAIN a) \cup (DOMAIN b) |->
        (IF k \in DOMAIN a THEN a[k] ELSE 0) + (IF k \in DOMAIN b THEN b[k] ELSE 0) ]

-----------------------------------------------------------------------------
(* pivot_file: the router and the two paths *)

MAX_FILE_SIZE == 100 * (2 ^ 20)

\* variant: the comparison with >=
too_big_inclusive(size) == size >= MAX_FILE_SIZE

\* os.path.getsize(input_file_path) > MAX_FILE_SIZE: the file is too big to read at once
too_big(size) == size > MAX_FILE_SIZE

\* lines 130-132: read everything (NA filter on), filter once, pivot once
pivot_whole_file(content, cfg) ==
    LET filtered_df == filter_dataframe(read_csv(content, TRUE), cfg)
    IN  IF filtered_df.exc # "none" THEN filtered_df
        ELSE pivot_table(filtered_df.value, cfg)

\* lines 104-106: one chunk of the reader (na_filter=False), filtered and pivoted
pivot_chunk_of(chunk, cfg) ==
    LET filtered_chunk == filter_dataframe(read_csv(chunk, FALSE), cfg)
    IN  IF filtered_chunk.exc # "none" THEN filtered_chunk
        ELSE pivot_table(filtered_chunk.value, cfg)

\* variant: the running table replaced by the latest chunk's table
merge_into_replace(overall, pivot_chunk) ==
    IF DOMAIN pivot_chunk.counts = {} THEN overall ELSE pivot_chunk

\* lines 107-117: skip an empty chunk table, adopt the first one, merge the others
merge_into(overall, pivot_chunk) ==
    IF DOMAIN pivot_chunk.counts = {} THEN overall
    ELSE IF overall = None THEN pivot_chunk
    ELSE DataFrameOf(merge(overall.counts, pivot_chunk.counts))

\* the rows the reader hands out next: chunksize rows, fewer at the end of the file
next_chunk(content, pos) ==
    [ columns |-> content.columns,
      rows |-> SubSeq(content.rows, pos + 1, Min(pos + ChunkRows, Len(content.rows))) ]

\* dataframe.to_excel(new_file_path, ...): None has no to_excel
write_dataframe_to_output(df) ==
    IF df = None THEN Raise("AttributeError") ELSE Return("written")

\* main's except clause
except_clause(e) == e = "ZeroDivisionError"

-----------------------------------------------------------------------------
(* Inputs *)

FileSizes == {MAX_FILE_SIZE - 1, MAX_FILE_SIZE, MAX_FILE_SIZE + 1}

NoFile == [columns |-> {}, rows |-> <<>>]

\* cells of the files the script is run on
FileCells(c) ==
    CASE c = "Destination" -> { <<"NY">> }
      [] c = "Anchor"      -> { <<>>, <<" ">>, <<"Blue">>, <<"Red">> }
      [] c = "Follow"      -> { <<>>, <<"FALSE">> }

FileSchemas == { Columns, Columns \ {"Destination"} }

RowsOver(cols, Cells(_)) ==
    { r \in [cols -> UNION { Cells(c) : c \in cols }] : \A c \in cols : r[c] \in Cells(c) }

FramesOver(schemas, Cells(_), n) ==
    UNION { { [columns |-> cols, rows |-> rs] :
                rs \in UNION { [1..k -> RowsOver(cols, Cells)] : k \in 1..n } } :
            cols \in schemas }

Files == FramesOver(FileSchemas, FileCells, MaxRows)

-----------------------------------------------------------------------------
(* main *)

Init ==
    /\ config = UKConfig
    /\ file_no = 1
    /\ pc = "loop"
    /\ file_size = 0
    /\ csv = NoFile
    /\ reader_pos = 0
    /\ overall_pivot_df = None
    /\ pivot_df = None
    /\ outcome = <<>>
    /\ na_filter = FALSE
    /\ dataframe = Return(NoFile)
    /\ chunk_tables = <<>>
    /\ pending = {}

other_specs == <<na_filter, dataframe, chunk_tables, pending>>

\* an exception leaves pivot_file or write_dataframe_to_output: the except clause
\* logs it and the loop goes on, anything else ends the script with a traceback
Unwind(e) ==
    IF except_clause(e)
    THEN /\ outcome' = Append(outcome, "logged")
         /\ file_no' = file_no + 1
         /\ pc' = "loop"
    ELSE /\ outcome' = Append(outcome, e)
         /\ file_no' = file_no
         /\ pc' = "uncaught"

\* lines 154-157, 126-127: the next input file, routed by its size
ProcessFile ==
    /\ pc = "loop"
    /\ file_no <= NumFiles
    /\ \E size \in FileSizes :
         /\ file_size' = size
         /\ pc' = IF too_big(size) THEN "chunked" ELSE "whole"
    /\ csv' = NoFile
    /\ reader_pos' = 0
    /\ overall_pivot_df' = None
    /\ pivot_df' = None
    /\ UNCHANGED <<config, file_no, outcome, other_specs>>

\* lines 130-133
ReadWholeFile ==
    /\ pc = "whole"
    /\ \E content \in Files :
         LET r == pivot_whole_file(content, config)
         IN  /\ csv' = content
             /\ IF r.exc = "none"
                THEN /\ pivot_df' = r.value
                     /\ pc' = "write"
                     /\ UNCHANGED <<file_no, outcome>>
                ELSE /\ pivot_df' = pivot_df
                     /\ Unwind(r.exc)
    /\ UNCHANGED <<config, file_size, reader_pos, overall_pivot_df, other_specs>>

\* lines 101-102
OpenReader ==
    /\ pc = "chunked"
    /\ \E content \in Files : csv' = content
    /\ reader_pos' = 0
    /\ overall_pivot_df' = None
    /\ pc' = "chunks"
    /\ UNCHANGED <<config, file_no, file_size, pivot_df, outcome, other_specs>>

\* lines 104-117: one turn of the loop over the reader
NextChunk ==
    /\ pc = "chunks"
    /\ reader_pos < Len(csv.rows)
    /\ LET r == pivot_chunk_of(next_chunk(csv, reader_pos), config)
       IN  /\ reader_pos' = Min(reader_pos + ChunkRows, Len(csv.rows))
           /\ IF r.exc = "none"
              THEN /\ overall_pivot_df' = merge_into(overall_pivot_df, r.value)
                   /\ UNCHANGED <<pc, file_no, outcome>>
              ELSE /\ overall_pivot_df' = overall_pivot_df
                   /\ Unwind(r.exc)
    /\ UNCHANGED <<config, file_size, csv, pivot_df, other_specs>>

\* lines 118, 128, 133: the reader is exhausted
ReturnChunked ==
    /\ pc = "chunks"
    /\ reader_pos >= Len(csv.rows)
    /\ pivot_df' = overall_pivot_df
    /\ pc' = "write"
    /\ UNCHANGED <<config, file_no, file_size, csv, reader_pos, overall_pivot_df,
                   outcome, other_specs>>

\* line 158
WriteOutput ==
    /\ pc = "write"
    /\ LET w == write_dataframe_to_output(pivot_df)
       IN  IF w.exc = "none"
           THEN /\ outcome' = Append(outcome, w.value)
                /\ file_no' = file_no + 1
                /\ pc' = "loop"
           ELSE Unwind(w.exc)
    /\ UNCHANGED <<config, file_size, csv, reader_pos, overall_pivot_df, pivot_df,
                   other_specs>>

\* line 161
CloseScript ==
    /\ pc = "loop"
    /\ file_no > NumFiles
    /\ pc' = "closed"
    /\ UNCHANGED <<config, file_no, file_size, csv, reader_pos, overall_pivot_df,
                   pivot_df, outcome, other_specs>>

Next ==
    \/ ProcessFile
    \/ ReadWholeFile
    \/ OpenReader
    \/ NextChunk
    \/ ReturnChunked
    \/ WriteOutput
    \/ CloseScript

Spec == Init /\ [][Next]_vars

-----------------------------------------------------------------------------
(* Measures the properties are stated with *)

RECURSIVE SumOfCounts(_)
SumOfCounts(counts) ==
    IF DOMAIN counts = {} THEN 0
    ELSE LET k == CHOOSE x \in DOMAIN counts : TRUE
         IN  counts[k] + SumOfCounts([ j \in (DOMAIN counts) \ {k} |-> counts[j] ])

\* the counts a result of pivot_file holds: None holds none
CountsOf(df) == IF df = None THEN EmptyCounts ELSE df.counts

\* a string with a character that is not whitespace
NonBlank(v) == \E j \in 1..Len(v) : v[j] \notin Whitespace

\* rows of a filtered frame that pivot_table has to count
CountedRows(df, cfg) ==
    Cardinality({ i \in 1..Len(df.rows) : NonBlank(df.rows[i][cfg.secondary_column]) })

NumChunks(n) == (n + ChunkRows - 1) \div ChunkRows

\* the k-th chunk of the current file
ChunkNo(k) == next_chunk(csv, (k - 1) * ChunkRows)

ChunkedPath == file_size > MAX_FILE_SIZE

\* tables of the chunks the reader has handed out so far
ProcessedTables ==
    [ k \in 1..NumChunks(reader_pos) |-> pivot_chunk_of(ChunkNo(k), config).value.counts ]

RECURSIVE CountAt(_, _)
CountAt(tables, key) ==
    IF tables = <<>> THEN 0
    ELSE (IF key \in DOMAIN Head(tables) THEN Head(tables)[key] ELSE 0)
         + CountAt(Tail(tables), key)

PointwiseSum(tables) ==
    [ key \in UNION { DOMAIN tables[i] : i \in 1..Len(tables) } |-> CountAt(tables, key) ]

RECURSIVE SumSeq(_)
SumSeq(ns) == IF ns = <<>> THEN 0 ELSE Head(ns) + SumSeq(Tail(ns))

\* rows of the current file that survive filter_dataframe, as the path taken
\* applies it, with a secondary value that is not blank
SurvivingRows ==
    IF ChunkedPath
    THEN SumSeq([ k \in 1..NumChunks(Len(csv.rows)) |->
                    CountedRows(filter_dataframe(read_csv(ChunkNo(k), FALSE), config).value,
                                config) ])
    ELSE CountedRows(filter_dataframe(read_csv(csv, TRUE), config).value, config)

-----------------------------------------------------------------------------
(* Properties of the run *)

\* C1: the table of the chunked path equals the table of the whole-file path on
\* the same file, stated for the files the whole-file path yields a table for (a
\* chunked result of None is compared as a table without counts)
C1_ChunkedEqualsWholeFile ==
    LET whole == pivot_whole_file(csv, config)
    IN  (pc = "write" /\ ChunkedPath /\ whole.exc = "none") =>
            CountsOf(pivot_df) = whole.value.counts

\* C2: a file with no surviving row is no error: pivot_file returns a table (never
\* a missing value), and a file whose secondary values are all blank raises nothing
C2_EmptyResultIsATable ==
    /\ pc = "write" => pivot_df # None
    /\ ( /\ pc = "uncaught"
         /\ csv.columns = Columns
         /\ \A i \in 1..Len(csv.rows) : ~ NonBlank(csv.rows[i][config.secondary_column]) )
       => FALSE

\* C3: a failure of pivot_file or write_dataframe_to_output for one file is logged
\* and the loop goes on: no exception ends the run
C3_FailureIsLoggedAndLoopGoesOn ==
    /\ pc # "uncaught"
    /\ \A i \in 1..Len(outcome) : outcome[i] \in {"written", "logged"}

\* C4 as stated: a size at or above the threshold takes the chunked path, a size
\* below it the whole-file path
C4_AtOrAboveIsChunked ==
    /\ pc = "whole" => file_size < MAX_FILE_SIZE
    /\ pc \in {"chunked", "chunks"} => file_size >= MAX_FILE_SIZE
    /\ (pc \in {"whole", "chunked"} /\ file_size >= MAX_FILE_SIZE) => pc = "chunked"

\* C4 as amended: a size strictly above the threshold takes the chunked path, a
\* size at or below it (the threshold itself included) the whole-file path
C4_StrictlyAboveIsChunked ==
    /\ pc = "whole" => file_size <= MAX_FILE_SIZE
    /\ pc \in {"chunked", "chunks"} => file_size > MAX_FILE_SIZE

C4_Witness == pc = "whole" /\ file_size = MAX_FILE_SIZE

\* C7: the counts of the table pivot_file returns sum to the number of rows that
\* survive filter_dataframe with a non-blank secondary value, on either path (a
\* chunked run that built no table holds no counts)
C7_CountConservation ==
    pc = "write" => SumOfCounts(CountsOf(pivot_df)) = SurvivingRows

C7_Witness ==
    /\ pc = "write"
    /\ ChunkedPath
    /\ pivot_df # None
    /\ \E k \in DOMAIN pivot_df.counts : pivot_df.counts[k] >= 2
    /\ SumOfCounts(pivot_df.counts) < Len(csv.rows)

\* C10: in the chunked loop the running table is the pointwise sum of the tables
\* of the chunks processed so far: its keys are the union of their keys and each
\* count is the sum of the chunks' counts, an absent key counting zero (no table
\* yet means every chunk table so far was empty)
C10_RunningTableIsPointwiseSum ==
    pc = "chunks" =>
        IF overall_pivot_df = None
        THEN \A k \in 1..NumChunks(reader_pos) : DOMAIN ProcessedTables[k] = {}
        ELSE overall_pivot_df.counts = PointwiseSum(ProcessedTables)

C10_Witness ==
    /\ pc = "chunks"
    /\ NumChunks(reader_pos) >= 3
    /\ overall_pivot_df # None
    /\ \E k \in DOMAIN overall_pivot_df.counts : overall_pivot_df.counts[k] >= 2
    /\ \E k \in DOMAIN overall_pivot_df.counts : overall_pivot_df.counts[k] = 1

-----------------------------------------------------------------------------
(* filter_dataframe and pivot_table on a batch of their own *)

\* a configuration without exclusions whose first additional filter names a
\* column no file has
PlainConfig ==
    [ UKConfig EXCEPT
        !.main_column_exclude = {},
        !.secondary_column_exclude = {},
        !.additional_filters =
            << [column |-> "Type", pattern |-> {<<"Hyperlink">>}],
               [column |-> "Follow", pattern |-> {<<"FALSE">>}] >> ]

Configs == {UKConfig, PlainConfig}

BatchCells(c) ==
    CASE c = "Destination" -> { <<>>, <<"NY">>, <<"Jewelry/", "14-carat/", "Rings">> }
      [] c = "Anchor"      -> { <<>>, <<"Blue">>, <<"Yes", " ", "please">> }
      [] c = "Follow"      -> { <<>>, <<"FALSE">>, <<"FALSE", " ", "please">> }

BatchSchemas == { Columns, Columns \ {"Follow"}, Columns \ {"Destination"} }

Batches == FramesOver(BatchSchemas, BatchCells, MaxBatch)

main_vars == <<file_no, file_size, reader_pos, overall_pivot_df, outcome,
               chunk_tables, pending>>

InitFilter ==
    /\ config \in Configs
    /\ na_filter \in BOOLEAN
    /\ csv \in Batches
    /\ dataframe = Return(read_csv(csv, na_filter))
    /\ pc = "filter_dataframe"
    /\ pivot_df = None
    /\ file_no = 1
    /\ file_size = 0
    /\ reader_pos = 0
    /\ overall_pivot_df = None
    /\ outcome = <<>>
    /\ chunk_tables = <<>>
    /\ pending = {}

\* lines 57-63
Exclusions ==
    /\ pc = "filter_dataframe"
    /\ dataframe' = apply_exclusions(dataframe.value, config)
    /\ pc' = IF dataframe'.exc = "none" THEN "excluded" ELSE "raised"
    /\ UNCHANGED <<config, csv, na_filter, pivot_df, main_vars>>

\* lines 65-72
AdditionalFilters ==
    /\ pc = "excluded"
    /\ dataframe' = Return(apply_additional_filters(dataframe.value, config))
    /\ pc' = "filtered"
    /\ UNCHANGED <<config, csv, na_filter, pivot_df, main_vars>>

\* pivot_table on the filtered frame
PivotFiltered ==
    /\ pc = "filtered"
    /\ LET r == pivot_table(dataframe.value, config)
       IN  IF r.exc = "none"
           THEN pivot_df' = r.value /\ pc' = "pivoted"
           ELSE pivot_df' = None /\ pc' = "raised"
    /\ UNCHANGED <<config, csv, na_filter, dataframe, main_vars>>

NextFilter == Exclusions \/ AdditionalFilters \/ PivotFiltered

SpecFilter == InitFilter /\ [][NextFilter]_vars

\* filtered frames handed to pivot_table: strings only
PivotCells(c) ==
    CASE c = "Destination" -> { <<"NY">>, <<"LA">> }
      [] c = "Anchor"      -> { <<>>, <<" ">>, <<"Blue">>, <<" ", "Blue">> }
      [] c = "Follow"      -> { <<"FALSE">> }

FilteredFrames == FramesOver({ Columns \ {"Follow"} }, PivotCells, MaxRows)

InitPivot ==
    /\ config = UKConfig
    /\ na_filter = FALSE
    /\ csv = NoFile
    /\ dataframe \in { Return(df) : df \in FilteredFrames }
    /\ pc = "filtered"
    /\ pivot_df = None
    /\ file_no = 1
    /\ file_size = 0
    /\ reader_pos = 0
    /\ overall_pivot_df = None
    /\ outcome = <<>>
    /\ chunk_tables = <<>>
    /\ pending = {}

NextPivot == PivotFiltered

SpecPivot == InitPivot /\ [][NextPivot]_vars

-----------------------------------------------------------------------------
(* The merge on tables of its own *)

MergeKeys == { << <<"NY">>, <<"Blue">> >>, << <<"NY">>, <<"Red">> >> }

Tables == UNION { [K -> 1..MaxCount] : K \in SUBSET MergeKeys }

ChunkIds == {1, 2, 3}

InitMerge ==
    /\ chunk_tables \in [ChunkIds -> Tables]
    /\ pending = ChunkIds
    /\ overall_pivot_df = None
    /\ pc = "merge"
    /\ config = UKConfig
    /\ na_filter = FALSE
    /\ csv = NoFile
    /\ dataframe = Return(NoFile)
    /\ pivot_df = None
    /\ file_no = 1
    /\ file_size = 0
    /\ reader_pos = 0
    /\ outcome = <<>>

merge_unchanged == <<config, file_no, pc, file_size, csv, reader_pos, pivot_df,
                     outcome, na_filter, dataframe, chunk_tables>>

\* lines 107-117 on any chunk table not merged yet
MergeChunk ==
    /\ pc = "merge"
    /\ \E i \in pending :
         /\ overall_pivot_df' = merge_into(overall_pivot_df, DataFrameOf(chunk_tables[i]))
         /\ pending' = pending \ {i}
    /\ UNCHANGED merge_unchanged

\* lines 113-117 performed on an empty chunk table instead of skipping it
MergeEmptyChunk ==
    /\ pc = "merge"
    /\ overall_pivot_df # None
    /\ \E i \in pending :
         /\ DOMAIN chunk_tables[i] = {}
         /\ overall_pivot_df' = DataFrameOf(merge(overall_pivot_df.counts, chunk_tables[i]))
         /\ pending' = pending \ {i}
    /\ UNCHANGED merge_unchanged

NextMerge == MergeChunk \/ MergeEmptyChunk

SpecMerge == InitMerge /\ [][NextMerge]_vars

-----------------------------------------------------------------------------
(* Properties of filter_dataframe *)

\* the batch as filter_dataframe receives it
Batch == read_csv(csv, na_filter)

\* the cell is missing: NaN, or the empty string
Missing(v) == v = NaN \/ v = <<>>

\* some substring of v is one of the pattern's alternatives
HasMatchInside(v, pattern) ==
    /\ ~ Missing(v)
    /\ \E p \in pattern : \E k \in 0..Len(v) :
         /\ k + Len(p) <= Len(v)
         /\ \A j \in 1..Len(p) : v[k + j] = p[j]

\* the whole of v (a missing cell read as the empty string) is one of the alternatives
IsMatchOfAll(v, pattern) ==
    \E p \in pattern :
        /\ Len(p) = (IF Missing(v) THEN 0 ELSE Len(v))
        /\ \A j \in 1..Len(p) : v[j] = p[j]

\* columns of the batch with a value in some row
LiveColumns == { c \in Batch.columns : \E i \in 1..Len(Batch.rows) : Batch.rows[i][c] # NaN }

\* rows the exclusion of column by pattern lets through
PassesExclusion(i, column, pattern) ==
    pattern = {} \/ ~ HasMatchInside(Batch.rows[i][column], pattern)

PassesExclusions(i) ==
    /\ PassesExclusion(i, config.main_column, config.main_column_exclude)
    /\ PassesExclusion(i, config.secondary_column, config.secondary_column_exclude)

PassesAdditional(i) ==
    \A n \in 1..Len(config.additional_filters) :
        LET f == config.additional_filters[n]
        IN  f.column \in LiveColumns => IsMatchOfAll(Batch.rows[i][f.column], f.pattern)

RECURSIVE RowsFrom(_, _, _)
\* the rows of the batch from the i-th on whose index is in kept, in order, cut
\* to the columns cols
RowsFrom(i, cols, kept) ==
    IF i > Len(Batch.rows) THEN <<>>
    ELSE (IF i \in kept THEN << [ c \in cols |-> Batch.rows[i][c] ] >> ELSE <<>>)
         \o RowsFrom(i + 1, cols, kept)

StringsOf(rows) ==
    [ i \in 1..Len(rows) |->
        [ c \in DOMAIN rows[i] |-> IF rows[i][c] = NaN THEN <<>> ELSE rows[i][c] ] ]

RequiredColumnMissing ==
    \/ config.main_column_exclude # {} /\ config.main_column \notin LiveColumns
    \/ config.secondary_column_exclude # {} /\ config.secondary_column \notin LiveColumns

RECURSIVE IsSubsequence(_, _)
IsSubsequence(s, t) ==
    IF s = <<>> THEN TRUE
    ELSE IF t = <<>> THEN FALSE
    ELSE IF Head(s) = Head(t) THEN IsSubsequence(Tail(s), Tail(t))
    ELSE IsSubsequence(s, Tail(t))

WithoutColumn(df, column) ==
    [ columns |-> df.columns \ {column},
      rows |-> [ i \in 1..Len(df.rows) |->
                   [ c \in df.columns \ {column} |-> df.rows[i][c] ] ] ]

\* C8: an additional filter whose column the batch lacks is skipped and drops no
\* row, the other additional filters are applied, filter_dataframe returns a
\* frame; and taking such a column out of the batch loses no surviving row
C8_MissingFilterColumnIsSkipped ==
    /\ pc = "filtered" =>
         LET before == fillna_str(apply_exclusions(Batch, config).value)
             present == { n \in 1..Len(config.additional_filters) :
                            config.additional_filters[n].column \in before.columns }
         IN  /\ dataframe.exc = "none"
             /\ dataframe.value.rows =
                  SelectSeq(before.rows,
                            LAMBDA r : \A n \in present :
                                r[config.additional_filters[n].column]
                                    \in config.additional_filters[n].pattern)
             /\ \A n \in 1..Len(config.additional_filters) :
                  LET column == config.additional_filters[n].column
                      loose == filter_dataframe(WithoutColumn(Batch, column), config)
                  IN  /\ loose.exc = "none"
                      /\ IsSubsequence(WithoutColumn(dataframe.value, column).rows,
                                       loose.value.rows)

\* the filter on Type is skipped, the filter on Follow still drops "FALSE please"
C8_Witness ==
    /\ pc = "filtered"
    /\ config = PlainConfig
    /\ csv.columns = Columns
    /\ dataframe.value.columns = Columns
    /\ Len(csv.rows) = 2
    /\ csv.rows[2].Follow = <<"FALSE", " ", "please">>
    /\ Len(dataframe.value.rows) = 1
    /\ dataframe.value.rows[1].Follow = <<"FALSE">>

-----------------------------------------------------------------------------
(* Properties of pivot_table *)

\* rows of the filtered frame with exactly this pair and a non-blank secondary value
Tally(key) ==
    Cardinality({ i \in 1..Len(dataframe.value.rows) :
                    /\ dataframe.value.rows[i][config.main_column] = key[1]
                    /\ dataframe.value.rows[i][config.secondary_column] = key[2]
                    /\ NonBlank(key[2]) })

PairsOfFrame ==
    { << dataframe.value.rows[i][config.main_column],
         dataframe.value.rows[i][config.secondary_column] >> :
        i \in 1..Len(dataframe.value.rows) }

\* C6: the table holds a pair exactly when some row has that pair with a
\* non-blank secondary value, with the number of such rows as its count; no
\* count is 0 and a row with a blank secondary value is not in the table
C6_ExactTally ==
    pc = "pivoted" =>
        /\ pivot_df # None
        /\ DOMAIN pivot_df.counts \subseteq PairsOfFrame
        /\ \A key \in PairsOfFrame :
             /\ key \in DOMAIN pivot_df.counts <=> Tally(key) >= 1
             /\ key \in DOMAIN pivot_df.counts => pivot_df.counts[key] = Tally(key)
        /\ \A key \in DOMAIN pivot_df.counts : pivot_df.counts[key] >= 1 /\ NonBlank(key[2])

C6_Witness ==
    /\ pc = "pivoted"
    /\ \E key \in DOMAIN pivot_df.counts : pivot_df.counts[key] = 2
    /\ \E i \in 1..Len(dataframe.value.rows) :
         dataframe.value.rows[i][config.secondary_column] = <<" ">>

-----------------------------------------------------------------------------
(* Properties of the merge *)

\* C5: the merge is commutative and associative and the empty table is its
\* identity; so whatever the order the chunk tables are merged in, and whether an
\* empty one is merged or skipped, the final table is the same
C5_MergeAlgebra ==
    LET a == chunk_tables[1]
        b == chunk_tables[2]
        c == chunk_tables[3]
    IN  pc = "merge" =>
          /\ merge(a, b) = merge(b, a)
          /\ merge(merge(a, b), c) = merge(a, merge(b, c))
          /\ merge(a, EmptyCounts) = a
          /\ pending = {} => CountsOf(overall_pivot_df) = merge(merge(a, b), c)

C5_Witness ==
    /\ pc = "merge"
    /\ pending = {}
    /\ DOMAIN chunk_tables[1] = {}
    /\ DOMAIN chunk_tables[2] = MergeKeys
    /\ DOMAIN chunk_tables[3] # MergeKeys /\ DOMAIN chunk_tables[3] # {}
    /\ overall_pivot_df # None
    /\ \E k \in MergeKeys : overall_pivot_df.counts[k] >= 3

====
